---- MODULE Spec2Model ----
(***************************************************************************)
(* A model of chromadb-cli (src/main.py): the start-up of one invocation   *)
(* (module-level load_dotenv, the click group, get_client) and the six     *)
(* command handlers create, delete, list, peek, search and stats, run      *)
(* against a vector store that raises on missing or duplicate names and    *)
(* may fail at any call.                                                   *)
(*                                                                         *)
(* Python values: None is the string NoneValue; the environment and a      *)
(* collection's metadata are functions from keys to values (a dict); text  *)
(* is a TLA+ string, so Len, SubSeq and \o are Python's len, slice and +.  *)
(***************************************************************************)
EXTENDS Integers, Sequences, FiniteSets, TLC

\* ------------------------------------------------------------------ bounds

\* The largest number of items a collection of the initial store holds.
MaxItems == 4
\* The length of every stored embedding vector.
EmbDim == 3

\* ------------------------------------------------------- program constants

\* main.py:155 and :193, the slice [:100] and the test len(...) > 100
PreviewLen == 100
\* main.py:137, --limit default
DefaultLimit == 10
\* main.py:172, --n-results default
DefaultNResults == 5
\* main.py:40, os.getenv('CHROMA_PORT', '8000')
DefaultPort == "8000"

Ellipsis == "..."
NoneValue == "<None>"
Names == {"foo", "bar"}
DefaultDistance == "l2"
DefaultProvider == "openai"
\* a command-line option that was not given
NotGiven == "<not given>"
\* --distance and --embedding-provider as given on the command line
DistanceOpts == {NotGiven, "cosine"}
ProviderOpts == {NotGiven, "cohere"}
\* --embedding-model: not given (None), given empty, given a name
ModelOpts == {NotGiven, "", "text-embedding-3-small"}
UnknownDim == "Unknown (empty collection)"
EmptyDict == <<>>

Min(a, b) == IF a < b THEN a ELSE b

\* ------------------------------------------------------------ Python text

Digit(d) == SubSeq("0123456789", d + 1, d + 1)

\* str(n) of a natural number: its decimal digits.
RECURSIVE Str(_)
Str(n) == IF n < 10 THEN Digit(n) ELSE Str(n \div 10) \o Digit(n % 10)

\* int(s) of the port strings the model's environments hold.
ParseInt(s) == CASE s = "8000" -> 8000
                 [] s = "9000" -> 9000

\* s[:n]
Slice(s, n) == SubSeq(s, 1, Min(n, Len(s)))

\* not v, of a string or None
Falsy(v) == v = NoneValue \/ v = ""

\* ------------------------------------------------------- the stored corpus

\* A text of n characters, "abcabc...": every prefix differs from every
\* suffix of the same length, and no character is the marker's.
RECURSIVE Text(_)
Text(n) == IF n = 0 THEN "" ELSE Text(n - 1) \o SubSeq("abc", ((n - 1) % 3) + 1, ((n - 1) % 3) + 1)

\* The length of the i-th stored document: just over the preview length, at
\* it, empty, just under it, then longer ones.
DocLen(i) == CASE i = 1 -> PreviewLen + 1
               [] i = 2 -> PreviewLen
               [] i = 3 -> 0
               [] i = 4 -> PreviewLen - 1
               [] OTHER -> PreviewLen + i

\* The i-th stored item. Every fourth item carries a metadata dict, the
\* others none (None, held as the empty dict: both are false in Python);
\* distances are in units of 0.0001.
Item(i) == [id |-> "id" \o Str(i),
            document |-> Text(DocLen(i)),
            metadata |-> IF i % 4 = 0 THEN ("source" :> "seed") ELSE EmptyDict,
            embedding |-> [k \in 1..EmbDim |-> k],
            distance |-> 1000 * i]

\* A collection another client filled: n items, and a metadata mapping
\* with or without a distance tag.
Seeded(n, md) == [metadata |-> md, items |-> [i \in 1..n |-> Item(i)]]
SeedMetadata == {EmptyDict, ("hnsw:space" :> "cosine")}
SeededCollections == {Seeded(n, md) : n \in 0..MaxItems, md \in SeedMetadata}

\* A store: a function from the names of the existing collections.
StoresOf(collections) == UNION {[S -> collections] : S \in SUBSET Names}

\* ------------------------------------------------- the store's operations
\* What the handlers call on the client and on a collection. A call named
\* by a handler's fault input raises instead (connection refused, auth
\* failure) and leaves the store as it was.

Calls == {"create_collection", "delete_collection", "list_collections",
          "get_collection", "count", "get", "query"}

\* client.create_collection(name=, metadata=): a new, empty collection.
create_collection(st, name, metadata) ==
    (name :> [metadata |-> metadata, items |-> <<>>]) @@ st

\* client.delete_collection(name)
delete_collection(st, name) == [n \in (DOMAIN st) \ {name} |-> st[n]]

\* client.list_collections(): the existing collections (by name).
list_collections(st) == DOMAIN st

\* collection.count()
count(col) == Len(col.items)

\* collection.get(limit=): the first `limit` items as parallel lists. The
\* embeddings are returned only when the store includes them (include);
\* otherwise the entry is None, held as the empty list: both are false.
get(col, limit, include) ==
    LET k == Min(limit, Len(col.items)) IN
    [ids |-> [i \in 1..k |-> col.items[i].id],
     documents |-> [i \in 1..k |-> col.items[i].document],
     metadatas |-> [i \in 1..k |-> col.items[i].metadata],
     embeddings |-> IF include THEN [i \in 1..k |-> col.items[i].embedding] ELSE <<>>]

\* collection.query(query_texts=[query], n_results=): one inner list per
\* query text, holding the nearest n_results items.
query(col, n_results) ==
    LET k == Min(n_results, Len(col.items)) IN
    [ids |-> << [i \in 1..k |-> col.items[i].id] >>,
     documents |-> << [i \in 1..k |-> col.items[i].document] >>,
     distances |-> << [i \in 1..k |-> col.items[i].distance] >>]

\* ----------------------------------------------------------- configuration

\* os.getenv(key) and os.getenv(key, default)
getenv(env, key) == IF key \in DOMAIN env THEN env[key] ELSE NoneValue
getenv_default(env, key, default) == IF key \in DOMAIN env THEN env[key] ELSE default

\* The places a .env file may be: the working directory, its parent, the
\* home subdirectory .eureka-chroma, and the directory of main.py (or the
\* nearest directory above it) when that is not the working directory.
Locations == {"cwd", "parent", "home", "script"}
\* What the .env file at a location defines.
FileEnv(loc) == ("CHROMA_HOST" :> ("host-in-" \o loc))

\* load_dotenv(path): the file's variables are added to the environment; a
\* variable already set keeps its value (override=False).
load_dotenv(env, loc) == env @@ FileEnv(loc)

\* load_dotenv() at import: python-dotenv's find_dotenv() walks up from the
\* directory of the calling file, main.py, and loads the first .env found.
module_load_dotenv(env, files, scriptInCwd) ==
    IF scriptInCwd
    THEN IF "cwd" \in files THEN load_dotenv(env, "cwd")
         ELSE IF "parent" \in files THEN load_dotenv(env, "parent")
         ELSE env
    ELSE IF "script" \in files THEN load_dotenv(env, "script") ELSE env

\* load_config(): defined in main.py and called nowhere.
load_config(env, files) ==
    IF "cwd" \in files THEN load_dotenv(env, "cwd")
    ELSE IF "parent" \in files THEN load_dotenv(env, "parent")
    ELSE IF "home" \in files THEN load_dotenv(env, "home")
    ELSE env

NoClient == [mode |-> "none", host |-> NoneValue, port |-> 0, token |-> NoneValue]
LocalClient == [mode |-> "local", host |-> "./chroma_data", port |-> 0, token |-> NoneValue]

\* get_client(), a faulty variant: CHROMA_URL selects the remote client as well.
get_client_url(env) ==
    IF Falsy(getenv(env, "CHROMA_HOST")) /\ Falsy(getenv(env, "CHROMA_URL"))
    THEN LocalClient
    ELSE [mode |-> "remote",
          host |-> IF Falsy(getenv(env, "CHROMA_HOST")) THEN getenv(env, "CHROMA_URL")
                   ELSE getenv(env, "CHROMA_HOST"),
          port |-> ParseInt(getenv_default(env, "CHROMA_PORT", DefaultPort)),
          token |-> getenv(env, "CHROMA_TOKEN")]

\* get_client()
get_client(env) ==
    LET host == getenv(env, "CHROMA_HOST")
        token == getenv(env, "CHROMA_TOKEN")
    IN IF Falsy(host)
       THEN LocalClient
       ELSE [mode |-> "remote",
             host |-> host,
             port |-> ParseInt(getenv_default(env, "CHROMA_PORT", DefaultPort)),
             token |-> token]

\* ------------------------------------------------------------ the handlers
\* Each handler is an operator from the store, its arguments and the call
\* that fails (if any) to the store it leaves and what the invocation
\* showed: [store, out].

NoResults == [ids |-> <<>>, documents |-> <<>>]
NoPanel == [total |-> "", dim |-> "", metric |-> ""]
NoArgs == [distance |-> NotGiven, provider |-> NotGiven, model |-> NotGiven]

\* What one invocation showed. outcome: "confirmation", "notice", "table",
\* "panel", "error" (the red Error line of an except clause) or "crash" (an
\* exception no handler caught: a traceback); raised: the call that raised,
\* error: why; exit: the process's exit status.
BaseOut(cmd, name) ==
    [cmd |-> cmd, name |-> name, args |-> NoArgs, raised |-> "none", error |-> "",
     outcome |-> "", exit |-> 0, metadata |-> EmptyDict, lines |-> <<>>,
     listRows |-> {}, rows |-> <<>>, results |-> NoResults,
     footer |-> <<>>, panel |-> NoPanel]

NoOut == BaseOut("none", "")

\* except Exception as e: console.print(f"[red]Error: {str(e)}"), after
\* which the handler returns and the process exits with status 0.
Caught(o, call, why) ==
    [o EXCEPT !.raised = call, !.error = why, !.outcome = "error", !.exit = 0]

\* An exception outside any try: the interpreter prints the traceback and
\* exits with status 1.
Uncaught(o, call, why) ==
    [o EXCEPT !.raised = call, !.error = why, !.outcome = "crash", !.exit = 1]

\* click's default= for an option that was not given
ClickDefault(opt, default) == IF opt = NotGiven THEN default ELSE opt
\* an option without default= is None when not given
ClickOptional(opt) == IF opt = NotGiven THEN NoneValue ELSE opt

\* create's metadata, a faulty variant: the provider is recorded only when it is
\* not the default one.
create_metadata_optional_provider(distance, embedding_provider, embedding_model) ==
    ("hnsw:space" :> distance)
    @@ (IF embedding_provider # DefaultProvider
        THEN ("embedding_provider" :> embedding_provider) ELSE EmptyDict)
    @@ (IF ~Falsy(embedding_model)
        THEN ("embedding_model" :> embedding_model) ELSE EmptyDict)

\* create: the metadata dict and the `if embedding_model:` that extends it.
create_metadata(distance, embedding_provider, embedding_model) ==
    ("hnsw:space" :> distance) @@ ("embedding_provider" :> embedding_provider)
    @@ (IF ~Falsy(embedding_model)
        THEN ("embedding_model" :> embedding_model) ELSE EmptyDict)

\* create NAME [--distance] [--embedding-provider] [--embedding-model]
create(st, name, distanceOpt, providerOpt, modelOpt, fault) ==
    LET distance == ClickDefault(distanceOpt, DefaultDistance)
        embedding_provider == ClickDefault(providerOpt, DefaultProvider)
        embedding_model == ClickOptional(modelOpt)
        metadata == create_metadata(distance, embedding_provider, embedding_model)
        o == [BaseOut("create", name) EXCEPT
                !.args = [distance |-> distanceOpt, provider |-> providerOpt,
                          model |-> modelOpt],
                !.metadata = metadata]
    IN IF fault = "create_collection"
       THEN [store |-> st, out |-> Caught(o, "create_collection", "unavailable")]
       ELSE IF name \in DOMAIN st
       THEN [store |-> st, out |-> Caught(o, "create_collection", "already exists")]
       ELSE [store |-> create_collection(st, name, metadata),
             out |-> [o EXCEPT
                !.outcome = "confirmation",
                !.lines = << "Created collection '" \o name \o "':",
                             "  Distance metric: " \o distance,
                             "  Embedding provider: " \o embedding_provider >>
                          \o (IF ~Falsy(embedding_model)
                              THEN << "  Embedding model: " \o embedding_model >>
                              ELSE <<>>)]]

\* delete, a faulty variant: the except clause is silent and the confirmation is
\* printed after it.
delete_swallow(st, name, fault) ==
    LET o == BaseOut("delete", name)
        done == [o EXCEPT !.outcome = "confirmation",
                          !.lines = << "Deleted collection '" \o name \o "'" >>]
    IN IF fault = "delete_collection" \/ name \notin DOMAIN st
       THEN [store |-> st, out |-> done]
       ELSE [store |-> delete_collection(st, name), out |-> done]

\* delete NAME
delete(st, name, fault) ==
    LET o == BaseOut("delete", name) IN
    IF fault = "delete_collection"
    THEN [store |-> st, out |-> Caught(o, "delete_collection", "unavailable")]
    ELSE IF name \notin DOMAIN st
    THEN [store |-> st, out |-> Caught(o, "delete_collection", "not found")]
    ELSE [store |-> delete_collection(st, name),
          out |-> [o EXCEPT !.outcome = "confirmation",
                            !.lines = << "Deleted collection '" \o name \o "'" >>]]

\* list's rows, a faulty variant: a collection without items gets no row.
list_rows_nonempty(st) ==
    {<<n, Str(count(st[n]))>> : n \in {m \in list_collections(st) : count(st[m]) > 0}}

\* list: the loop that adds one row (name, str(count)) per collection.
list_rows(st) == {<<n, Str(count(st[n]))>> : n \in list_collections(st)}

\* list: no try, so a call that raises ends the process with a traceback.
list(st, fault) ==
    LET o == BaseOut("list", "") IN
    IF fault = "list_collections"
    THEN [store |-> st, out |-> Uncaught(o, "list_collections", "unavailable")]
    ELSE IF list_collections(st) = {}
    THEN [store |-> st, out |-> [o EXCEPT !.outcome = "notice",
                                          !.lines = << "No collections found" >>]]
    ELSE IF fault \in {"get_collection", "count"}
    THEN [store |-> st, out |-> Uncaught(o, fault, "unavailable")]
    ELSE [store |-> st, out |-> [o EXCEPT !.outcome = "table",
                                          !.listRows = list_rows(st)]]

\* The preview, a faulty variant: a document of exactly PreviewLen characters is
\* cut as well.
doc_preview_at_limit(document) ==
    IF Len(document) >= PreviewLen
    THEN Slice(document, PreviewLen) \o Ellipsis
    ELSE document

\* peek and search: doc[:100] + "..." if len(doc) > 100 else doc
doc_preview(document) ==
    IF Len(document) > PreviewLen
    THEN Slice(document, PreviewLen) \o Ellipsis
    ELSE document

\* peek: one row per returned id; the metadata cell is "" for an item
\* without metadata.
peek_rows(results) ==
    [i \in 1..Len(results.ids) |->
        <<results.ids[i], "", doc_preview(results.documents[i])>>]

\* peek NAME [--limit]. JSON(str(metadata)) parses the dict's Python text
\* as JSON and raises on it (its quotes are single), inside the try.
peek(st, name, limit, include, fault) ==
    LET o == BaseOut("peek", name) IN
    IF fault = "get_collection"
    THEN [store |-> st, out |-> Caught(o, "get_collection", "unavailable")]
    ELSE IF name \notin DOMAIN st
    THEN [store |-> st, out |-> Caught(o, "get_collection", "not found")]
    ELSE IF fault = "get"
    THEN [store |-> st, out |-> Caught(o, "get", "unavailable")]
    ELSE
      LET collection == st[name]
          results == get(collection, limit, include)
          r == [o EXCEPT !.results = results]
      IN IF results.ids = <<>>
         THEN [store |-> st, out |-> [r EXCEPT !.outcome = "notice",
                                               !.lines = << "Collection is empty" >>]]
         ELSE IF \E i \in 1..Len(results.ids) : results.metadatas[i] # EmptyDict
         THEN [store |-> st, out |-> Caught(r, "JSON", "not json")]
         ELSE LET shown == [r EXCEPT !.rows = peek_rows(results)] IN
              IF fault = "count"
              THEN [store |-> st, out |-> Caught(shown, "count", "unavailable")]
              ELSE [store |-> st,
                    out |-> [shown EXCEPT
                        !.outcome = "table",
                        !.footer = << Str(Len(results.ids)), Str(count(collection)) >>]]

\* f"{x:.4f}" of a distance held in units of 0.0001
Format4(d) ==
    Str(d \div 10000) \o "." \o SubSeq("0000", 1, 4 - Len(Str(d % 10000))) \o Str(d % 10000)

\* search: one row per id of the first inner list.
search_rows(results) ==
    [i \in 1..Len(results.ids[1]) |->
        <<results.ids[1][i], Format4(results.distances[1][i]),
          doc_preview(results.documents[1][i])>>]

\* search NAME QUERY [--n-results]. `not results['ids']` tests the outer
\* list, which holds one inner list per query text.
search(st, name, n_results, fault) ==
    LET o == BaseOut("search", name) IN
    IF fault = "get_collection"
    THEN [store |-> st, out |-> Caught(o, "get_collection", "unavailable")]
    ELSE IF name \notin DOMAIN st
    THEN [store |-> st, out |-> Caught(o, "get_collection", "not found")]
    ELSE IF fault = "query"
    THEN [store |-> st, out |-> Caught(o, "query", "unavailable")]
    ELSE
      LET results == query(st[name], n_results)
          r == [o EXCEPT !.results = results]
      IN IF results.ids = <<>>
         THEN [store |-> st, out |-> [r EXCEPT !.outcome = "notice",
                                               !.lines = << "No results found" >>]]
         ELSE [store |-> st, out |-> [r EXCEPT !.outcome = "table",
                                               !.rows = search_rows(results)]]

\* stats' dimensionality, a faulty variant: the number of returned embeddings is
\* reported, whatever it is.
embedding_dim_count(results) == Str(Len(results.embeddings))

\* stats: str(embedding_dim), the length of the first returned embedding
\* or the "Unknown" text.
embedding_dim(results) ==
    IF results.embeddings # <<>>
    THEN Str(Len(results.embeddings[1]))
    ELSE UnknownDim

\* collection.metadata.get("hnsw:space", "l2")
distance_metric(collection) ==
    IF "hnsw:space" \in DOMAIN collection.metadata
    THEN collection.metadata["hnsw:space"] ELSE DefaultDistance

\* stats NAME
stats(st, name, include, fault) ==
    LET o == BaseOut("stats", name) IN
    IF fault = "get_collection"
    THEN [store |-> st, out |-> Caught(o, "get_collection", "unavailable")]
    ELSE IF name \notin DOMAIN st
    THEN [store |-> st, out |-> Caught(o, "get_collection", "not found")]
    ELSE IF fault = "get"
    THEN [store |-> st, out |-> Caught(o, "get", "unavailable")]
    ELSE
      LET collection == st[name]
          results == get(collection, 1, include)
          r == [o EXCEPT !.results = results]
      IN IF fault = "count"
         THEN [store |-> st, out |-> Caught(r, "count", "unavailable")]
         ELSE [store |-> st,
               out |-> [r EXCEPT
                   !.outcome = "panel",
                   !.panel = [total |-> Str(count(collection)),
                              dim |-> embedding_dim(results),
                              metric |-> distance_metric(collection)]]]

\* ---------------------------------------------------------------- the state

VARIABLES
    osenv,        \* the environment the process is started with
    files,        \* the locations that hold a .env file
    scriptInCwd,  \* main.py lies in the working directory
    environ,      \* os.environ of the running invocation
    client,       \* what get_client() returned to the last invocation
    store,        \* the collections of the store the client reaches
    out,          \* what the last invocation showed
    created,      \* names created successfully, no delete of the name since
    deleted,      \* name -> how its last delete ended, no create of it since
    pc,           \* start-up, step by step: where the invocation is
    echoed        \* what --verbose printed

vars == <<osenv, files, scriptInCwd, environ, client, store, out, created,
          deleted, pc, echoed>>

config == <<osenv, files, scriptInCwd>>

EnvKeys == {"CHROMA_HOST", "CHROMA_URL", "CHROMA_PORT", "CHROMA_TOKEN"}
EnvChoices == [k \in EnvKeys |->
    CASE k = "CHROMA_HOST" -> {NoneValue, "", "db.example"}
      [] k = "CHROMA_URL" -> {NoneValue, "http://db.example:8000"}
      [] k = "CHROMA_PORT" -> {NoneValue, "9000"}
      [] k = "CHROMA_TOKEN" -> {NoneValue, "secret"}]
\* The variables of f that are set (NoneValue in f: unset).
SetVars(f) == [k \in {j \in DOMAIN f : f[j] # NoneValue} |-> f[k]]
Envs == {SetVars(f) : f \in {g \in [EnvKeys -> UNION {EnvChoices[k] : k \in EnvKeys}] :
                                \A k \in EnvKeys : g[k] \in EnvChoices[k]}}

Limits == {1, 2, DefaultLimit}
NResults == {1, DefaultNResults}

\* The collections create can have made: empty, tagged by its options.
CreatedCollections ==
    {[metadata |-> ("hnsw:space" :> d) @@ ("embedding_provider" :> p) @@ m, items |-> <<>>] :
        d \in {DefaultDistance, "cosine"}, p \in {DefaultProvider, "cohere"},
        m \in {EmptyDict, ("embedding_model" :> "text-embedding-3-small")}}

\* create, delete and list against a store whose collections are absent,
\* empty, of one item or full.
Init ==
    /\ osenv = ("CHROMA_HOST" :> "db.example")
    /\ files = {}
    /\ scriptInCwd = TRUE
    /\ environ = osenv
    /\ client = NoClient
    /\ store \in StoresOf({Seeded(n, EmptyDict) : n \in {0, 1, MaxItems}})
    /\ out = NoOut
    /\ created = {}
    /\ deleted = EmptyDict
    /\ pc = "start"
    /\ echoed = EmptyDict

\* peek, search and stats against every store of seeded and created
\* collections.
InitQuery ==
    /\ osenv = EmptyDict
    /\ files = {}
    /\ scriptInCwd = TRUE
    /\ environ = osenv
    /\ client = NoClient
    /\ store \in StoresOf(SeededCollections \cup CreatedCollections)
    /\ out = NoOut
    /\ created = {}
    /\ deleted = EmptyDict
    /\ pc = "start"
    /\ echoed = EmptyDict

\* Every invocation starts a process: the import runs load_dotenv(), and
\* the handler calls get_client() first.
StartUp ==
    /\ pc = "start"
    /\ environ' = module_load_dotenv(osenv, files, scriptInCwd)
    /\ client' = get_client(environ')
    /\ UNCHANGED <<config, pc, echoed>>

Forget(f, name) == [n \in (DOMAIN f) \ {name} |-> f[n]]

Create(name, distanceOpt, providerOpt, modelOpt, fault) ==
    LET r == create(store, name, distanceOpt, providerOpt, modelOpt, fault) IN
    /\ StartUp
    /\ store' = r.store
    /\ out' = r.out
    /\ created' = IF r.out.outcome = "confirmation" THEN created \cup {name} ELSE created
    /\ deleted' = Forget(deleted, name)

Delete(name, fault) ==
    LET r == delete(store, name, fault) IN
    /\ StartUp
    /\ store' = r.store
    /\ out' = r.out
    /\ created' = created \ {name}
    /\ deleted' = (name :> (IF r.out.outcome = "confirmation" THEN "confirmation"
                            ELSE r.out.error)) @@ deleted

List(fault) ==
    LET r == list(store, fault) IN
    /\ StartUp
    /\ store' = r.store
    /\ out' = r.out
    /\ UNCHANGED <<created, deleted>>

Peek(name, limit, include, fault) ==
    LET r == peek(store, name, limit, include, fault) IN
    /\ StartUp
    /\ store' = r.store
    /\ out' = r.out
    /\ UNCHANGED <<created, deleted>>

Search(name, n_results, fault) ==
    LET r == search(store, name, n_results, fault) IN
    /\ StartUp
    /\ store' = r.store
    /\ out' = r.out
    /\ UNCHANGED <<created, deleted>>

Stats(name, include, fault) ==
    LET r == stats(store, name, include, fault) IN
    /\ StartUp
    /\ store' = r.store
    /\ out' = r.out
    /\ UNCHANGED <<created, deleted>>

\* The life of a collection: create (by name and distance), delete, list.
Next ==
    \/ \E name \in Names, d \in DistanceOpts, fault \in {"none", "create_collection"} :
            Create(name, d, NotGiven, NotGiven, fault)
    \/ \E name \in Names, fault \in {"none", "delete_collection"} : Delete(name, fault)
    \/ \E fault \in {"none", "list_collections", "get_collection", "count"} : List(fault)

Spec == Init /\ [][Next]_vars

\* create with every combination of its options, on stores where the name
\* is free or taken.
InitCreate ==
    /\ osenv = ("CHROMA_HOST" :> "db.example")
    /\ files = {}
    /\ scriptInCwd = TRUE
    /\ environ = osenv
    /\ client = NoClient
    /\ store \in StoresOf({Seeded(0, EmptyDict)})
    /\ out = NoOut
    /\ created = {}
    /\ deleted = EmptyDict
    /\ pc = "start"
    /\ echoed = EmptyDict

NextCreate ==
    \E name \in Names, d \in DistanceOpts, p \in ProviderOpts, m \in ModelOpts,
       fault \in {"none", "create_collection"} : Create(name, d, p, m, fault)

SpecCreate == InitCreate /\ [][NextCreate]_vars

NextQuery ==
    \/ \E name \in Names, limit \in Limits, include \in BOOLEAN,
          fault \in {"none", "get_collection", "get", "count"} :
            Peek(name, limit, include, fault)
    \/ \E name \in Names, n \in NResults, fault \in {"none", "get_collection", "query"} :
            Search(name, n, fault)
    \/ \E name \in Names, include \in BOOLEAN,
          fault \in {"none", "get_collection", "get", "count"} :
            Stats(name, include, fault)

SpecQuery == InitQuery /\ [][NextQuery]_vars

\* ------------------------------------------------- start-up, step by step

\* Every environment, every placement of .env files, an empty store.
InitConfig ==
    /\ osenv \in Envs
    /\ files \in SUBSET Locations
    /\ scriptInCwd \in BOOLEAN
    /\ environ = osenv
    /\ client = NoClient
    /\ store = EmptyDict
    /\ out = NoOut
    /\ created = {}
    /\ deleted = EmptyDict
    /\ pc = "start"
    /\ echoed = EmptyDict

\* import main: load_dotenv()
Import ==
    /\ pc = "start"
    /\ environ' = module_load_dotenv(osenv, files, scriptInCwd)
    /\ pc' = "imported"
    /\ UNCHANGED <<config, client, store, out, created, deleted, echoed>>

\* cli(ctx, verbose): --verbose prints four variables, never the token.
Cli(verbose) ==
    /\ pc = "imported"
    /\ echoed' = IF verbose
                 THEN [k \in {"CHROMA_URL", "CHROMA_HOST", "CHROMA_PORT", "CHROMA_SSL"} |->
                          getenv(environ, k)]
                 ELSE EmptyDict
    /\ pc' = "command"
    /\ UNCHANGED <<config, environ, client, store, out, created, deleted>>

\* The command's first statement: client = get_client()
GetClient ==
    /\ pc = "command"
    /\ client' = get_client(environ)
    /\ pc' = "client"
    /\ UNCHANGED <<config, environ, store, out, created, deleted, echoed>>

\* The process ends; the next one starts from the same environment.
Exit ==
    /\ pc = "client"
    /\ environ' = osenv
    /\ client' = NoClient
    /\ echoed' = EmptyDict
    /\ pc' = "start"
    /\ UNCHANGED <<config, store, out, created, deleted>>

NextConfig ==
    \/ Import
    \/ \E verbose \in BOOLEAN : Cli(verbose)
    \/ GetClient
    \/ Exit

SpecConfig == InitConfig /\ [][NextConfig]_vars

\* ------------------------------------------------------------------ claims

Successes == {"confirmation", "notice", "table", "panel"}
RowNames(rows) == {row[1] : row \in rows}

\* C1: whenever a call on the store raises during a handler, the handler
\* catches it and the invocation ends with the error line shown; no raised
\* failure ends the process with an uncaught exception.
C1_EveryFailureCaught ==
    out.raised \in Calls => out.outcome = "error"

\* C2: the exit status is 0 exactly when the invocation succeeded or showed
\* an empty-result notice, and 1 whenever a handler caught a failure.
C2_ExitStatus ==
    out.cmd # "none" => (out.exit = 0 <=> out.outcome \in Successes)

\* C3: a list that the store answers shows, for every name created
\* successfully and not deleted since, the row (name, "0"), and so shows
\* the table and not the "No collections found" notice.
C3_CreatedIsListedEmpty ==
    (out.cmd = "list" /\ out.raised = "none") =>
        /\ \A n \in created : <<n, "0">> \in out.listRows
        /\ created # {} => out.outcome = "table"

\* C3 witness: a list after a successful create, next to a collection that
\* holds items.
C3_Witness ==
    /\ out.cmd = "list"
    /\ out.outcome = "table"
    /\ created # {}
    /\ \E row \in out.listRows : row[2] # "0"

\* C4 as stated: after a delete of a name, whatever the delete reported, and
\* no create of the name since, list shows no row for the name.
C4_DeletedNeverListed ==
    out.cmd = "list" => \A n \in DOMAIN deleted : n \notin RowNames(out.listRows)

\* C4 as amended: after a delete of a name that reported the confirmation,
\* or the error that no such collection exists, and no create of the name
\* since, list shows no row for the name; and a list the store answers
\* prints the "No collections found" notice when no collection is left.
C4_ConfirmedDeleteNotListed ==
    out.cmd = "list" =>
        /\ \A n \in DOMAIN deleted :
              deleted[n] \in {"confirmation", "not found"} => n \notin RowNames(out.listRows)
        /\ (out.raised = "none" /\ DOMAIN store = {}) =>
              (out.outcome = "notice" /\ out.lines = << "No collections found" >>)

\* C4 witness: a list that shows the other collection after a delete that
\* reported the confirmation.
C4_Witness ==
    /\ out.cmd = "list"
    /\ out.outcome = "table"
    /\ \E n \in DOMAIN deleted : deleted[n] = "confirmation"

\* C5 as stated: get_client returns the local client if and only if neither
\* CHROMA_HOST nor CHROMA_URL is set to a non-empty value.
C5_LocalIffNoHostNoUrl ==
    pc = "client" =>
        (client.mode = "local" <=>
            (Falsy(getenv(environ, "CHROMA_HOST")) /\ Falsy(getenv(environ, "CHROMA_URL"))))

\* C5 as amended: get_client returns the local client (./chroma_data) if
\* and only if CHROMA_HOST is unset or empty, whatever CHROMA_URL is;
\* otherwise the remote client of that host.
C5_LocalIffNoHost ==
    pc = "client" =>
        IF Falsy(getenv(environ, "CHROMA_HOST"))
        THEN client.mode = "local" /\ client.host = "./chroma_data"
        ELSE client.mode = "remote" /\ client.host = environ["CHROMA_HOST"]

\* C5 witness: the local client, chosen with CHROMA_URL set.
C5_Witness ==
    /\ pc = "client"
    /\ client.mode = "local"
    /\ ~Falsy(getenv(environ, "CHROMA_URL"))

\* C6 as stated: the metadata create passes holds the distance key (the
\* given distance, or l2), the provider only when --embedding-provider was
\* given, the model only when --embedding-model was given, and the
\* distance key alone when no option was given.
C6_ProviderOnlyWhenGiven ==
    out.cmd = "create" =>
        /\ "hnsw:space" \in DOMAIN out.metadata
        /\ out.metadata["hnsw:space"] =
              (IF out.args.distance = NotGiven THEN "l2" ELSE out.args.distance)
        /\ "embedding_provider" \in DOMAIN out.metadata => out.args.provider # NotGiven
        /\ "embedding_model" \in DOMAIN out.metadata => out.args.model # NotGiven
        /\ (out.args = NoArgs) => DOMAIN out.metadata = {"hnsw:space"}

\* C6 as amended: the metadata create passes always holds the distance key
\* (the given distance, or l2) and the provider (the given one, or openai),
\* and holds the model exactly when a non-empty --embedding-model was
\* given; with no option it holds the distance and the provider.
C6_ProviderAlways ==
    out.cmd = "create" =>
        /\ "hnsw:space" \in DOMAIN out.metadata
        /\ out.metadata["hnsw:space"] =
              (IF out.args.distance = NotGiven THEN "l2" ELSE out.args.distance)
        /\ "embedding_provider" \in DOMAIN out.metadata
        /\ out.metadata["embedding_provider"] =
              (IF out.args.provider = NotGiven THEN "openai" ELSE out.args.provider)
        /\ "embedding_model" \in DOMAIN out.metadata <=> out.args.model \notin {NotGiven, ""}
        /\ "embedding_model" \in DOMAIN out.metadata =>
              out.metadata["embedding_model"] = out.args.model
        /\ DOMAIN out.metadata \subseteq {"hnsw:space", "embedding_provider", "embedding_model"}
        /\ (out.args = NoArgs) => DOMAIN out.metadata = {"hnsw:space", "embedding_provider"}

\* C6 witness: a create without options that succeeded.
C6_Witness ==
    /\ out.cmd = "create"
    /\ out.args = NoArgs
    /\ out.outcome = "confirmation"
    /\ out.name \in DOMAIN store
    /\ store[out.name].metadata = out.metadata

\* C7: a search that the store answers with no match shows the "No results
\* found" notice and no table, and exits with status 0.
C7_NoMatchIsNotice ==
    (out.cmd = "search" /\ out.raised = "none" /\ out.results.ids[1] = <<>>) =>
        /\ out.outcome = "notice"
        /\ out.lines = << "No results found" >>
        /\ out.rows = <<>>
        /\ out.exit = 0

\* C8: the configuration get_client uses is that of the first .env file in
\* the order working directory, parent directory, ~/.eureka-chroma.
C8_ConfigFileByPriority ==
    pc = "client" => client = get_client(load_config(osenv, files))

IsPreviewOf(p, d) ==
    IF Len(d) > PreviewLen
    THEN /\ Len(p) = PreviewLen + Len(Ellipsis)
         /\ SubSeq(p, 1, PreviewLen) = SubSeq(d, 1, PreviewLen)
         /\ SubSeq(p, PreviewLen + 1, Len(p)) = Ellipsis
    ELSE p = d

\* C10: every row peek or search shows holds, for a document of more than
\* 100 characters, its first 100 followed by "...", and for any other
\* document the document itself.
C10_PreviewRule ==
    /\ out.cmd = "peek" =>
          \A i \in 1..Len(out.rows) : IsPreviewOf(out.rows[i][3], out.results.documents[i])
    /\ out.cmd = "search" =>
          \A i \in 1..Len(out.rows) : IsPreviewOf(out.rows[i][3], out.results.documents[1][i])

\* C10 witness: a peek that shows documents of more than, exactly and less
\* than 100 characters.
C10_Witness ==
    /\ out.cmd = "peek"
    /\ out.outcome = "table"
    /\ \E i \in 1..Len(out.rows) : Len(out.results.documents[i]) > PreviewLen
    /\ \E i \in 1..Len(out.rows) : Len(out.results.documents[i]) = PreviewLen
    /\ \E i \in 1..Len(out.rows) : Len(out.results.documents[i]) = 0
====
